---- MODULE Spec2Model ----
(***************************************************************************)
(* LogVaultClient (src/src/index.ts, lines 1-191): the buffer, the periodic *)
(* timer, the memoized source resolution and the flush engine.             *)
(*                                                                         *)
(* JavaScript runs one synchronous segment at a time; a segment ends at an *)
(* await.  Every action below is one such segment: the public call or the  *)
(* callback up to its first suspension, or the continuation of a suspended *)
(* flush after the promise it awaits has settled.  Continuations of a      *)
(* settled promise are microtasks: they run in the order they were queued  *)
(* and before any timer callback or network completion; only calls made by *)
(* the caller's own code (log, close) can run between them.                *)
(***************************************************************************)
EXTENDS Naturals, Integers, Sequences, FiniteSets, TLC

\* ------------------------------------------------------------------ bounds
\* Number of log() calls explored.
MaxLogs == 3
\* Number of flush invocations that may be suspended at the same time.
MaxTasks == 2
\* Number of sends that fail in one behaviour ("sends fail only finitely often").
MaxFails == 2
\* options.batchSize (default 100, the tests use 3 and 10): a configuration input.
BatchSize == 2
\* The capacity literal of slice(0, 1000), scaled down so that a behaviour of
\* MaxLogs calls reaches and exceeds it.
BufferCap == 2
\* The POST /logs requests are counted up to this number: the counter is
\* bookkeeping, and what is stated about it tells apart none, one and more.
MaxPosts == 2

Slots == 1..MaxTasks
Ids == 1..MaxLogs

\* ------------------------------------------------------------- data model
\* null as a value of this.sourceInfo.
Null == [null |-> TRUE]
\* The body of a 2xx answer of GET /validate (interface SourceInfo).
SourceInfo == [id |-> "source-123", name |-> "test-source"]
\* options.defaultSource when the caller configures none (line 44).
defaultSource == "default-client"

\* An argument that was not passed (undefined).
Undefined == "<undefined>"
\* JavaScript truthiness of an optional string: undefined and "" are falsy.
Truthy(v) == v \notin {Undefined, ""}
\* The values of the source argument of log() that are explored.
Sources == {Undefined, "", "custom-source"}
\* The values of metadata.source, of metadata.requestId and of
\* metadata.sourceId that are explored; Undefined stands for a metadata
\* object without the key.  Metadatas varies source and requestId,
\* SpecSourceId varies sourceId.
MetaSources == {Undefined, "", "metadata-source"}
RequestIds == {Undefined, "", "req-1"}
SourceIds == {Undefined, "caller-source-id"}
Metadatas == [source : MetaSources, requestId : RequestIds, sourceId : {Undefined}]
\* The default of the metadata parameter of log() (line 131): {}.
NoMetadata == [source |-> Undefined, requestId |-> Undefined, sourceId |-> Undefined]
\* The values of options.defaultSource a caller may configure.
DefaultSources == {defaultSource, "", Undefined}
\* The 2xx bodies of GET /validate that are explored.
Bodies == {SourceInfo, [id |-> "", name |-> ""]}

Take(s, n) == SubSeq(s, 1, IF Len(s) < n THEN Len(s) ELSE n)
IdsOf(s) == {s[i].id : i \in 1..Len(s)}

VARIABLES
  buffer,             \* this.buffer
  timer,              \* this.timer # null
  sourceInfo,         \* this.sourceInfo
  sourceInfoPromise,  \* this.sourceInfoPromise: "none" (null), "pending",
                      \* "resolved" (with sourceInfo or null), "stuck" (never settles)
  tasks,              \* the suspended flush invocations, oldest first
  logCalls,           \* number of log() calls made so far (the next entry's id)
  validateRequests,   \* GET /validate requests issued
  postCount,          \* POST /logs requests issued (counted up to MaxPosts)
  sendFailures,       \* POST /logs requests that failed
  delivered,          \* ids of entries in a POST answered 2xx
  dropped,            \* ids of entries cut off by slice(0, 1000)
  rejected,           \* callers whose promise rejected
  options,            \* this.options (the part the entry builder reads)
  last                \* the segment that ran last

vars == <<buffer, timer, sourceInfo, sourceInfoPromise, tasks, logCalls,
          validateRequests, postCount, sendFailures, delivered, dropped,
          rejected, options, last>>

\* A suspended flush: where it is suspended ("awaitSource" at line 98,
\* "sending" at line 108), who called it, the batch it drained, and
\* bookkeeping: the buffer when it was called, whether a log() pushed and
\* whether another flush drained or restored entries since, the number of
\* log() calls made before it was called, and the number of entries log()
\* had pushed when it drained the buffer.
Task(pc, owner, batch, pre, mark) ==
  [pc |-> pc, owner |-> owner, batch |-> batch, pre |-> pre,
   appended |-> FALSE, interfered |-> FALSE, mark |-> mark, drained |-> 0]
NoTask == Task("none", "none", <<>>, <<>>, 0)

Remove(s, t) == [i \in 1..(Len(s) - 1) |-> IF i < t THEN s[i] ELSE s[i + 1]]
Running == 1..Len(tasks)

\* A segment: the operation, whether the flush it called suspended, the
\* callers whose promise it settled, the number of flush() calls it made,
\* the flush invocation that ended in it, the value log() returned, how the
\* POST that ended in it failed, whether the timeout of that POST was
\* cleared, and the arguments log() was called with.
Event(op, suspended, returned, flushes, ended) ==
  [op |-> op, suspended |-> suspended, returned |-> returned, flushes |-> flushes,
   ended |-> ended, result |-> Undefined, outcome |-> "none", cleared |-> FALSE,
   call |-> [source |-> Undefined, metadata |-> NoMetadata],
   turn |-> IF op \in {"init", "log", "close"} THEN "caller"
            ELSE IF op = "flushResume" THEN last.turn
            ELSE "runtime"]

\* -------------------------------------------------------- source resolver
\* initializeSourceInfo without the memo guard of line 53.
initializeSourceInfoNoMemo(promise, requests) ==
  [promise |-> "pending", requests |-> requests + 1]

\* initializeSourceInfo: the memo guard of line 53; without a promise a new
\* one is created and its executor issues GET /validate synchronously.
initializeSourceInfo(promise, requests) ==
  IF promise # "none"
  THEN [promise |-> promise, requests |-> requests]
  ELSE [promise |-> "pending", requests |-> requests + 1]

\* The try/catch inside the executor: every failure of the request is caught
\* and the promise resolves to null.
validateCaught(outcome) == outcome \in {"non2xx", "network", "badBody"}

\* getSourceName without the configured default.
getSourceNameNoDefault(info) ==
  IF info # Null /\ info.name # "" THEN info.name ELSE "unknown-source"

\* getSourceName
getSourceName(info) ==
  IF info # Null /\ info.name # "" THEN info.name
  ELSE IF Truthy(options.defaultSource) THEN options.defaultSource
  ELSE "unknown-source"

\* ------------------------------------------------------------------- Init
\* The state after the constructor: options merged, initializeSourceInfo()
\* called (request in flight), startTimer() called.
Constructed ==
  /\ buffer = <<>>
  /\ timer = TRUE
  /\ sourceInfo = Null
  /\ sourceInfoPromise = initializeSourceInfo("none", 0).promise
  /\ validateRequests = initializeSourceInfo("none", 0).requests
  /\ tasks = <<>>
  /\ logCalls = 0
  /\ postCount = 0
  /\ sendFailures = 0
  /\ delivered = {}
  /\ dropped = {}
  /\ rejected = {}
  /\ last = Event("init", FALSE, {}, 0, NoTask)

\* A client constructed without a defaultSource option.
Init ==
  /\ Constructed
  /\ options = [defaultSource |-> defaultSource]

\* A client constructed with any defaultSource option.
InitBuild ==
  /\ Constructed
  /\ options \in [defaultSource : DefaultSources]

\* ------------------------------------------------------------------ buffer
\* A catch clause that forgets to put the batch back.
restoreDropsBatch(batch, buf) == Take(buf, BufferCap)

\* A catch clause that puts the batch behind the buffer.
restoreBehind(batch, buf) == Take(buf \o batch, BufferCap)

\* A catch clause that gives the entries it puts back the source name that
\* is current when the POST fails.
restoreRenamed(batch, buf) ==
  Take([i \in 1..Len(batch) |->
          [batch[i] EXCEPT !.source = getSourceName(sourceInfo)]] \o buf,
       BufferCap)

\* A catch clause that puts the batch back at both ends of the buffer.
restoreTwice(batch, buf) == Take(batch \o buf \o batch, BufferCap)

\* Line 126: [...logsToSend, ...this.buffer].slice(0, 1000)
restore(batch, buf) == Take(batch \o buf, BufferCap)

\* A threshold test that holds for any buffer log() has pushed to.
thresholdAlways(buf) == buf # <<>>

\* The threshold test with > for >=.
thresholdAbove(buf) == Len(buf) > BatchSize

\* Line 161: this.buffer.length >= this.options.batchSize
thresholdReached(buf) == Len(buf) >= BatchSize

\* uuidv4(): the n-th generated id.
uuidv4(n) == "uuid-" \o ToString(n)

\* An entry builder in which metadata.source wins over the source argument.
logEntryMetadataFirst(source, metadata, info) ==
  [id |-> logCalls + 1,
   source |-> IF Truthy(metadata.source) THEN metadata.source
              ELSE IF Truthy(source) THEN source
              ELSE getSourceName(info),
   metadata |->
     [source |-> IF Truthy(metadata.source) THEN Undefined ELSE metadata.source,
      requestId |-> IF Truthy(metadata.requestId) THEN metadata.requestId
                    ELSE uuidv4(logCalls + 1),
      sourceId |-> IF info # Null /\ Truthy(info.id) THEN info.id
                   ELSE metadata.sourceId]]

\* An entry builder without the assignment of lines 155-157.
logEntryNoSourceId(source, metadata, info) ==
  [id |-> logCalls + 1,
   source |-> IF Truthy(source) THEN source
              ELSE IF Truthy(metadata.source) THEN metadata.source
              ELSE getSourceName(info),
   metadata |->
     [source |-> IF Truthy(metadata.source) THEN Undefined ELSE metadata.source,
      requestId |-> IF Truthy(metadata.requestId) THEN metadata.requestId
                    ELSE uuidv4(logCalls + 1),
      sourceId |-> metadata.sourceId]]

\* Lines 137-157: the entry log() builds; id is the number of the call and
\* stands for the identity of the object.  In the metadata, Undefined is a
\* key the object does not have.
\*  - line 140: source || metadata.source || this.getSourceName();
\*  - lines 143-146: the spread copies metadata.source and
\*    metadata.sourceId, requestId is metadata.requestId || uuidv4();
\*  - lines 150-152: delete metadata.source when it is truthy;
\*  - lines 155-157: sourceId is overwritten when this.sourceInfo?.id is
\*    truthy.
logEntry(source, metadata, info) ==
  [id |-> logCalls + 1,
   source |-> IF Truthy(source) THEN source
              ELSE IF Truthy(metadata.source) THEN metadata.source
              ELSE getSourceName(info),
   metadata |->
     [source |-> IF Truthy(metadata.source) THEN Undefined ELSE metadata.source,
      requestId |-> IF Truthy(metadata.requestId) THEN metadata.requestId
                    ELSE uuidv4(logCalls + 1),
      sourceId |-> IF info # Null /\ Truthy(info.id) THEN info.id
                   ELSE metadata.sourceId]]

\* log() without the return statement of line 165.
logReturnNothing(entry) == Undefined

\* Line 165: return logEntry.metadata!.requestId
logReturn(entry) == entry.metadata.requestId

\* Bookkeeping on the suspended flushes: a log() pushed, or another flush
\* drained or restored entries, while the flush was under way.
MarkAppended(tk) ==
  [t \in 1..Len(tk) |-> [tk[t] EXCEPT !.appended = TRUE]]
MarkInterfered(tk, moved) ==
  [t \in 1..Len(tk) |-> IF moved # <<>> THEN [tk[t] EXCEPT !.interfered = TRUE] ELSE tk[t]]

\* ------------------------------------------------------------ flush engine
\* The number of entries pushed so far, seen from a flush() called by owner:
\* log() has pushed its entry before it calls flush().
Pushed(owner) == IF owner = "log" THEN logCalls + 1 ELSE logCalls

\* The count of POST /logs requests after one more was issued.
Posted(n) == IF n < MaxPosts THEN n + 1 ELSE n

\* Whether a flush() called on buffer buf suspends; it does not when it
\* returns at line 94.
Suspends(buf) == buf # <<>>

\* flush() without the emptiness test of line 94.
flushNoCheck(owner, buf, tk, mark) ==
  /\ Len(tk) < MaxTasks
  /\ IF sourceInfo = Null
     THEN /\ sourceInfoPromise' =
               initializeSourceInfo(sourceInfoPromise, validateRequests).promise
          /\ validateRequests' =
               initializeSourceInfo(sourceInfoPromise, validateRequests).requests
          /\ buffer' = buf
          /\ tasks' = Append(tk, Task("awaitSource", owner, <<>>, buf, mark))
          /\ UNCHANGED postCount
     ELSE /\ buffer' = <<>>
          /\ tasks' = Append(MarkInterfered(tk, buf),
                             [Task("sending", owner, buf, buf, mark)
                                EXCEPT !.drained = Pushed(owner)])
          /\ postCount' = Posted(postCount)
          /\ UNCHANGED <<validateRequests, sourceInfoPromise>>

\* flush() that sends the buffer without emptying it (line 102 left out).
flushNoDrain(owner, buf, tk, mark) ==
  IF buf = <<>>
  THEN /\ buffer' = buf
       /\ tasks' = tk
       /\ UNCHANGED <<postCount, validateRequests, sourceInfoPromise>>
  ELSE /\ Len(tk) < MaxTasks
       /\ IF sourceInfo = Null
          THEN /\ sourceInfoPromise' =
                    initializeSourceInfo(sourceInfoPromise, validateRequests).promise
               /\ validateRequests' =
                    initializeSourceInfo(sourceInfoPromise, validateRequests).requests
               /\ buffer' = buf
               /\ tasks' = Append(tk, Task("awaitSource", owner, <<>>, buf, mark))
               /\ UNCHANGED postCount
          ELSE /\ buffer' = buf
               /\ tasks' = Append(MarkInterfered(tk, buf),
                                  [Task("sending", owner, buf, buf, mark)
                                     EXCEPT !.drained = Pushed(owner)])
               /\ postCount' = Posted(postCount)
               /\ UNCHANGED <<validateRequests, sourceInfoPromise>>

\* flush(), lines 93-116: the segment from the call to the first await.
\*  - empty buffer: return;
\*  - no sourceInfo: await initializeSourceInfo() (suspends even when the
\*    promise has already resolved to null);
\*  - otherwise drain the buffer and issue the POST.
flush(owner, buf, tk, mark) ==
  IF buf = <<>>
  THEN /\ buffer' = buf
       /\ tasks' = tk
       /\ UNCHANGED <<postCount, validateRequests, sourceInfoPromise>>
  ELSE /\ Len(tk) < MaxTasks
       /\ IF sourceInfo = Null
          THEN /\ sourceInfoPromise' =
                    initializeSourceInfo(sourceInfoPromise, validateRequests).promise
               /\ validateRequests' =
                    initializeSourceInfo(sourceInfoPromise, validateRequests).requests
               /\ buffer' = buf
               /\ tasks' = Append(tk, Task("awaitSource", owner, <<>>, buf, mark))
               /\ UNCHANGED postCount
          ELSE /\ buffer' = <<>>
               /\ tasks' = Append(MarkInterfered(tk, buf),
                                  [Task("sending", owner, buf, buf, mark)
                                     EXCEPT !.drained = Pushed(owner)])
               /\ postCount' = Posted(postCount)
               /\ UNCHANGED <<validateRequests, sourceInfoPromise>>

\* The flushes suspended at line 98; their continuations run oldest first.
Waiting == {t \in Running : tasks[t].pc = "awaitSource"}

\* Lines 101-116: the continuation of a flush once the awaited promise has
\* settled: drain whatever the buffer holds now and issue the POST.
flushResume(t) ==
  /\ t \in Waiting
  /\ \A u \in Waiting : t <= u
  /\ sourceInfoPromise = "resolved"
  /\ buffer' = <<>>
  /\ tasks' = [MarkInterfered(tasks, buffer) EXCEPT ![t] =
                 [tasks[t] EXCEPT !.pc = "sending", !.batch = buffer,
                                  !.drained = logCalls]]
  /\ postCount' = Posted(postCount)
  /\ last' = Event("flushResume", FALSE, {}, 0, NoTask)
  /\ UNCHANGED <<timer, sourceInfo, sourceInfoPromise, logCalls, validateRequests,
                 sendFailures, delivered, dropped, rejected, options>>

\* A continuation is queued: timer callbacks and network completions wait.
MicrotaskPending == Waiting # {} /\ sourceInfoPromise = "resolved"

\* When the caller's code can run.  A timer callback or a network completion
\* is followed by the continuations it has queued before any other code runs;
\* the caller's own code goes on after a call of log() or close() that left a
\* flush suspended, and can be interleaved with the continuations it queued.
CallerRuns == MicrotaskPending => last.turn = "caller"

\* Who awaits a flush: log() (line 162) and close() (line 189) do, the timer
\* callback (line 89) does not.
Awaiter(owner) == IF owner \in {"log", "close"} THEN {owner} ELSE {}

\* What the caller awaiting the flush that ends gets: log() returns the
\* requestId of the entry it pushed (the last one of the buffer it flushed),
\* close() and the timer callback nothing.
Returned(task) ==
  IF task.owner = "log" THEN logReturn(task.pre[Len(task.pre)]) ELSE Undefined

\* Line 118, clearTimeout(timeout): reached when the awaited fetch resolved,
\* with a 2xx status ("ok") or not; a fetch that rejected jumps to the catch
\* clause, which does not clear the timeout.
timeoutCleared(outcome) == outcome \in {"ok", "non2xx"}

\* Lines 118-123 with response.ok: the flush ends, the batch is delivered.
sendOk(t) ==
  /\ t \in Running
  /\ tasks[t].pc = "sending"
  /\ ~MicrotaskPending
  /\ tasks' = Remove(tasks, t)
  /\ delivered' = delivered \cup IdsOf(tasks[t].batch)
  /\ last' = [Event("sendOk", FALSE, Awaiter(tasks[t].owner), 0, tasks[t])
                EXCEPT !.result = Returned(tasks[t]),
                       !.cleared = timeoutCleared("ok")]
  /\ UNCHANGED <<buffer, timer, sourceInfo, sourceInfoPromise, logCalls,
                 validateRequests, postCount, sendFailures, dropped, rejected,
                 options>>

\* A try block that ends before the response is examined: only a rejected
\* fetch is caught.
sendCaughtFetchOnly(outcome) == outcome \in {"network", "abort"}

\* A catch clause that lets the AbortError of the request timeout through.
sendCaughtNoAbort(outcome) == outcome \in {"non2xx", "network"}

\* The catch clause of lines 124-128 covers the whole try block: the throw of
\* line 122 (non-2xx), a rejected fetch (network) and the abort of line 106.
sendCaught(outcome) == outcome \in {"non2xx", "network", "abort"}

\* Lines 120-128: the send failed.
sendFail(t, outcome) ==
  /\ t \in Running
  /\ tasks[t].pc = "sending"
  /\ ~MicrotaskPending
  /\ sendFailures < MaxFails
  /\ sendFailures' = sendFailures + 1
  /\ IF sendCaught(outcome)
     THEN /\ buffer' = restore(tasks[t].batch, buffer)
          /\ dropped' = dropped \cup
               (IdsOf(tasks[t].batch \o buffer) \ IdsOf(restore(tasks[t].batch, buffer)))
          /\ rejected' = rejected
          /\ tasks' = Remove(MarkInterfered(tasks, tasks[t].batch), t)
     ELSE /\ rejected' = rejected \cup {tasks[t].owner}
          /\ tasks' = Remove(tasks, t)
          /\ UNCHANGED <<buffer, dropped>>
  /\ last' = [Event("sendFail", FALSE, Awaiter(tasks[t].owner), 0, tasks[t])
                EXCEPT !.result = IF sendCaught(outcome) THEN Returned(tasks[t])
                                  ELSE Undefined,
                       !.outcome = outcome,
                       !.cleared = timeoutCleared(outcome)]
  /\ UNCHANGED <<timer, sourceInfo, sourceInfoPromise, logCalls,
                 validateRequests, postCount, delivered, options>>

\* ------------------------------------------------------- source resolution
\* Lines 64-68: GET /validate answered 2xx with the given body.
validateOk(body) ==
  /\ sourceInfoPromise = "pending"
  /\ sourceInfo' = body
  /\ sourceInfoPromise' = "resolved"
  /\ last' = Event("validateOk", FALSE, {}, 0, NoTask)
  /\ UNCHANGED <<buffer, timer, tasks, logCalls, validateRequests,
                 postCount, sendFailures, delivered, dropped, rejected, options>>

\* Lines 69-76: GET /validate answered non-2xx, or the request or
\* response.json() threw.
validateFail(outcome) ==
  /\ sourceInfoPromise = "pending"
  /\ IF validateCaught(outcome)
     THEN sourceInfoPromise' = "resolved" /\ rejected' = rejected
     ELSE sourceInfoPromise' = "stuck" /\ rejected' = rejected \cup {"resolver"}
  /\ last' = Event("validateFail", FALSE, {}, 0, NoTask)
  /\ UNCHANGED <<buffer, timer, sourceInfo, tasks, logCalls,
                 validateRequests, postCount, sendFailures, delivered, dropped,
                 options>>

\* --------------------------------------------------------------- producers
\* log(), lines 131-166.  The await of line 134 is never taken: the
\* constructor has set sourceInfoPromise and nothing resets it.
log(source, metadata) ==
  /\ logCalls < MaxLogs
  /\ CallerRuns
  /\ ~(sourceInfo = Null /\ sourceInfoPromise = "none")
  /\ logCalls' = logCalls + 1
  /\ LET entry == logEntry(source, metadata, sourceInfo)
         buf == Append(buffer, entry)
         tk == MarkAppended(tasks)
     IN IF thresholdReached(buf)
        THEN /\ flush("log", buf, tk, 0)
             /\ last' = [Event("log", Suspends(buf), {}, 1, NoTask)
                           EXCEPT !.call = [source |-> source, metadata |-> metadata]]
        ELSE /\ buffer' = buf
             /\ tasks' = tk
             /\ last' = [Event("log", FALSE, {"log"}, 0, NoTask)
                           EXCEPT !.result = logReturn(entry),
                                  !.call = [source |-> source, metadata |-> metadata]]
             /\ UNCHANGED <<postCount, validateRequests, sourceInfoPromise>>
  /\ UNCHANGED <<timer, sourceInfo, sendFailures, delivered, dropped, rejected,
                 options>>

\* ---------------------------------------------------- scheduler / lifecycle
\* The setInterval callback of startTimer, lines 88-90: fires while the
\* interval is armed and calls flush() without awaiting it.
timerTick ==
  /\ timer
  /\ ~MicrotaskPending
  /\ flush("timer", buffer, tasks, 0)
  /\ last' = Event("tick", Suspends(buffer), {}, 1, NoTask)
  /\ UNCHANGED <<timer, sourceInfo, logCalls, sendFailures, delivered, dropped,
                 rejected, options>>

\* close() without the clearInterval.
clearIntervalNoop(tm) == tm

\* Lines 185-188: clearInterval and this.timer = null.
clearInterval(tm) == IF tm THEN FALSE ELSE tm

\* close() calling flush() without returning its promise.
closeReturnsNow(suspended) == TRUE

\* Line 189, return this.flush(): close() settles when that flush does, so in
\* the calling segment only if the flush did not suspend.
closeReturns(suspended) == ~suspended

\* close(), lines 184-190.
close ==
  /\ CallerRuns
  /\ timer' = clearInterval(timer)
  /\ flush("close", buffer, tasks, logCalls)
  /\ last' = Event("close", Suspends(buffer),
                   IF closeReturns(Suspends(buffer)) THEN {"close"} ELSE {},
                   1, NoTask)
  /\ UNCHANGED <<sourceInfo, logCalls, sendFailures, delivered, dropped, rejected,
                 options>>

\* ------------------------------------------------------------------- Next
\* How a POST /logs fails: a non-2xx answer, a rejected fetch, the abort of
\* the request timeout.
Outcomes == {"non2xx", "network", "abort"}
\* How GET /validate fails: a non-2xx answer, a rejected fetch, a 2xx answer
\* whose body does not parse.
ValidateOutcomes == {"non2xx", "network", "badBody"}

\* The calls of Spec pass no source argument and no metadata, and the
\* resolver answers with the body of the tests: what an entry holds has no
\* influence on buffering and flushing.
Next ==
  \/ log(Undefined, NoMetadata)
  \/ timerTick
  \/ close
  \/ validateOk(SourceInfo)
  \/ \E o \in ValidateOutcomes : validateFail(o)
  \/ \E t \in Slots : flushResume(t)
  \/ \E t \in Slots : sendOk(t)
  \/ \E t \in Slots, o \in Outcomes : sendFail(t, o)

Spec == Init /\ [][Next]_vars

\* What the scheduling guarantees: an armed interval keeps firing, a queued
\* continuation runs, and a POST ends, at the latest by the abort of the
\* request timeout (line 106).  GET /validate has no timeout (lines 57-62):
\* nothing guarantees that it ends.
FairSpec ==
  /\ Spec
  /\ WF_vars(timerTick)
  /\ \A t \in Slots : WF_vars(flushResume(t))
  /\ \A t \in Slots : WF_vars(sendOk(t) \/ \E o \in Outcomes : sendFail(t, o))

\* A client on which only log() is called, with any source argument and
\* any requestId in the metadata: no timer tick, no close().
NextLogs ==
  \/ \E source \in Sources, requestId \in RequestIds :
       log(source, [NoMetadata EXCEPT !.requestId = requestId])
  \/ validateOk(SourceInfo)
  \/ \E o \in ValidateOutcomes : validateFail(o)
  \/ \E t \in Slots : flushResume(t)
  \/ \E t \in Slots : sendOk(t)
  \/ \E t \in Slots, o \in Outcomes : sendFail(t, o)

SpecLogs == Init /\ [][NextLogs]_vars

\* The entry builder: a client with any defaultSource option on which log()
\* is called with any source argument and any metadata, while the resolver
\* answers with any body or fails.  What becomes of the entries once a flush
\* has taken them is left to Spec and SpecLogs.
NextBuild ==
  \/ \E source \in Sources, metadata \in Metadatas : log(source, metadata)
  \/ \E body \in Bodies : validateOk(body)
  \/ \E o \in ValidateOutcomes : validateFail(o)

SpecBuild == InitBuild /\ [][NextBuild]_vars

\* The sourceId of the entries: log() is called with and without a sourceId
\* in its metadata, while the resolver answers with any body or fails, and
\* the flushes that log() triggers run to their end.
NextSourceId ==
  \/ \E sourceId \in SourceIds :
       log(Undefined, [NoMetadata EXCEPT !.sourceId = sourceId])
  \/ \E body \in Bodies : validateOk(body)
  \/ \E o \in ValidateOutcomes : validateFail(o)
  \/ \E t \in Slots : flushResume(t)
  \/ \E t \in Slots : sendOk(t)
  \/ \E t \in Slots, o \in Outcomes : sendFail(t, o)

SpecSourceId == Init /\ [][NextSourceId]_vars

\* ------------------------------------------------------------- properties
TypeOK ==
  /\ timer \in BOOLEAN
  /\ sourceInfo \in {Null} \cup Bodies
  /\ sourceInfoPromise \in {"pending", "resolved"}
  /\ logCalls \in 0..MaxLogs
  /\ sendFailures \in 0..MaxFails
  /\ Len(tasks) <= MaxTasks
  /\ \A t \in Running : tasks[t].pc \in {"awaitSource", "sending"}

Sending(t) == t \in Running /\ tasks[t].pc = "sending"
\* The segment that just ran was the failure of a send.
SendFailed == last.op = "sendFail"
\* The first n entries accepted by log().
Accepted(n) == 1..n

\* C1 (as stated): when a send fails and no log() call appended during the
\* flush, the buffer after the flush is the buffer as it was when flush() was
\* called.
C1_RestoredAsBefore ==
  (SendFailed /\ ~last.ended.appended) => buffer = last.ended.pre

\* C1 (amended): when a send fails and, from the flush() call to the failure,
\* no log() call appended and no other flush drained or restored entries, the
\* buffer after the flush is the buffer as it was when flush() was called,
\* in the same order, cut to its first BufferCap entries.
C1_Restored ==
  (SendFailed /\ ~last.ended.appended /\ ~last.ended.interfered)
     => buffer = Take(last.ended.pre, BufferCap)

C1_Witness ==
  /\ SendFailed
  /\ ~last.ended.appended
  /\ ~last.ended.interfered
  /\ Len(last.ended.pre) = BatchSize
  /\ buffer = last.ended.pre

\* C2: the buffer never holds more than BufferCap entries.
C2_Capped == Len(buffer) <= BufferCap

\* C3: if the timer stays armed and no entry is cut off by the capacity,
\* every entry accepted by log() is eventually in a POST answered 2xx (a
\* behaviour has at most MaxFails failed sends).
C3_EventuallyDelivered ==
  ([]timer /\ [](dropped = {}))
     => \A e \in Ids : (e <= logCalls) ~> (e \in delivered)

\* C4: exactly one GET /validate is ever issued, the one of the constructor.
C4_OneValidate == validateRequests = 1

C4_Witness ==
  /\ validateRequests = 1
  /\ \E t, u \in Running : /\ t # u
                         /\ tasks[t].pc = "awaitSource"
                         /\ tasks[u].pc = "awaitSource"
                         /\ tasks[t].owner = "log"
                         /\ tasks[u].owner = "close"

\* C5: close() makes exactly one flush() call and leaves the timer disarmed;
\* a disarmed timer is never armed again and no tick runs while it is disarmed.
C5_CloseStopsTimer ==
  /\ [](last.op = "close" => (last.flushes = 1 /\ ~timer))
  /\ [][~timer => (~timer' /\ last'.op # "tick")]_vars

C5_Witness ==
  /\ ~timer
  /\ last.op = "log"
  /\ last.flushes = 1
  /\ postCount >= 2

\* C6: close() disarms the timer and calls flush() once; it returns in the
\* calling segment only when that flush did not suspend, and otherwise in the
\* segment in which that flush's send ends, with success or with the failure
\* swallowed.
C6_CloseAwaitsFlush ==
  /\ last.op = "close" => (~timer /\ last.flushes = 1)
  /\ "close" \in last.returned =>
       IF last.op = "close"
       THEN ~last.suspended
       ELSE /\ last.op \in {"sendOk", "sendFail"}
            /\ last.ended.owner = "close"
            /\ last.ended.pc = "sending"

C6_Witness ==
  /\ "close" \in last.returned
  /\ last.op = "sendFail"
  /\ buffer = last.ended.batch
  /\ buffer # <<>>

\* C7: when close() returns and no send has failed, every entry accepted
\* before close() was called has been delivered.
C7_CloseDelivers ==
  ("close" \in last.returned /\ sendFailures = 0)
     => Accepted(IF last.op = "close" THEN logCalls ELSE last.ended.mark) \subseteq delivered

\* C8: no failure of GET /validate or of POST /logs rejects the promise of
\* log(), close() or a flush.
C8_NothingThrown == rejected = {}

C8_Witness ==
  /\ rejected = {}
  /\ sourceInfo = Null
  /\ sourceInfoPromise = "resolved"
  /\ SendFailed
  /\ "log" \in last.returned
  /\ sendFailures = MaxFails

C10_PostInOrder ==
  \A t \in Slots : Sending(t) =>
     \A i, j \in 1..Len(tasks[t].batch) :
        i < j => tasks[t].batch[i].id < tasks[t].batch[j].id

\* C11: a flush() called while the buffer is empty, by the timer callback
\* (which is the bare call this.flush()) or by close(), issues no request and
\* leaves the buffer, the suspended flushes and the source state as they
\* were; the timer is as the caller left it: untouched by the tick, cleared
\* by close() before it called flush().
C11_EmptyFlushNoop ==
  [][(last'.op \in {"tick", "close"} /\ buffer = <<>>) =>
       /\ UNCHANGED <<buffer, tasks, postCount, validateRequests, sourceInfo,
                      sourceInfoPromise>>
       /\ timer' = (IF last'.op = "close" THEN FALSE ELSE timer)
       /\ ~last'.suspended]_vars

C11_Witness ==
  /\ last.op = "tick"
  /\ ~last.suspended
  /\ buffer = <<>>
  /\ postCount > 0
  /\ sourceInfo # Null

\* C12: when the request timeout aborts a POST, the abort is a send failure
\* like the others: the caller's promise settles without a rejection and the
\* drained batch is back at the head of the buffer (up to the capacity).
C12_AbortRestores ==
  (last.op = "sendFail" /\ last.outcome = "abort") =>
    /\ sendFailures > 0
    /\ rejected = {}
    /\ last.returned = Awaiter(last.ended.owner)
    /\ Len(buffer) >= Len(Take(last.ended.batch, BufferCap))
    /\ Take(buffer, Len(Take(last.ended.batch, BufferCap)))
         = Take(last.ended.batch, BufferCap)

C12_Witness ==
  /\ last.op = "sendFail"
  /\ last.outcome = "abort"
  /\ Len(last.ended.batch) = 1
  /\ buffer = last.ended.batch

\* C13: two entries that are both in the buffer are in the order in which
\* log() appended them.
C13_BufferFifo ==
  \A i, j \in 1..Len(buffer) : i < j => buffer[i].id < buffer[j].id

\* The entry built by the log() call that ran last: the newest of the buffer
\* or, when the threshold flush drained at once, of the newest batch.
Built ==
  IF buffer # <<>> THEN buffer[Len(buffer)]
  ELSE tasks[Len(tasks)].batch[Len(tasks[Len(tasks)].batch)]

\* A value the caller passed, the empty string included.
Supplied(v) == v # Undefined

\* C14 (as stated): the source of an entry is the source argument if one was
\* supplied (even empty), else metadata.source if supplied, else the resolved
\* name if resolution has succeeded, else the configured defaultSource, else
\* the literal fallback.
C14_SuppliedPrecedence ==
  last.op = "log" =>
    Built.source =
      IF Supplied(last.call.source) THEN last.call.source
      ELSE IF Supplied(last.call.metadata.source) THEN last.call.metadata.source
      ELSE IF sourceInfo # Null THEN sourceInfo.name
      ELSE IF Supplied(options.defaultSource) THEN options.defaultSource
      ELSE "unknown-source"

\* C14 (amended): the source of an entry is the first non-empty string among
\* the source argument, metadata.source, the name of the resolved SourceInfo
\* and the configured defaultSource, and the literal fallback when there is
\* none; an empty string counts as not supplied.
C14_NonEmptyPrecedence ==
  last.op = "log" =>
    /\ Built.source =
         IF Truthy(last.call.source) THEN last.call.source
         ELSE IF Truthy(last.call.metadata.source) THEN last.call.metadata.source
         ELSE IF sourceInfo # Null /\ Truthy(sourceInfo.name) THEN sourceInfo.name
         ELSE IF Truthy(options.defaultSource) THEN options.defaultSource
         ELSE "unknown-source"
    /\ Truthy(Built.source)

C14_Witness ==
  /\ last.op = "log"
  /\ last.call.source = ""
  /\ last.call.metadata.source = "metadata-source"
  /\ sourceInfo = SourceInfo
  /\ Built.source = "metadata-source"

\* The entries held by the buffer and by the POST bodies in flight.
Held ==
  {buffer[i] : i \in 1..Len(buffer)}
  \cup UNION {{tasks[t].batch[i] : i \in 1..Len(tasks[t].batch)} : t \in Running}

\* C15: no entry in the buffer or in a POST body has a key source in its
\* metadata.
C15_NoMetadataSource == \A e \in Held : ~Supplied(e.metadata.source)

\* C16: every entry has a requestId in its metadata, and it is the caller's
\* whenever the caller's metadata has a requestId key, whatever its value,
\* and a generated one otherwise.
C16_RequestIdVerbatim ==
  /\ \A e \in Held : Supplied(e.metadata.requestId)
  /\ last.op = "log" =>
       Built.metadata.requestId =
         IF Supplied(last.call.metadata.requestId) THEN last.call.metadata.requestId
         ELSE uuidv4(Built.id)

C18_FailedUsesConfigured ==
  (sourceInfoPromise = "resolved" /\ sourceInfo = Null) =>
    /\ validateRequests = 1
    /\ (last.op = "log" /\ ~Supplied(last.call.source)
          /\ ~Supplied(last.call.metadata.source)) =>
         /\ Built.source = (IF Supplied(options.defaultSource)
                            THEN options.defaultSource ELSE "unknown-source")
         /\ ~Supplied(Built.metadata.sourceId)

\* C18 (amended): once GET /validate has failed, sourceInfo is null, no
\* second GET /validate is issued, and an entry built without a non-empty
\* source argument or metadata.source carries the configured defaultSource,
\* or the literal fallback when the configured defaultSource is empty or
\* undefined, and no sourceId.
C18_FailedUsesDefault ==
  (sourceInfoPromise = "resolved" /\ sourceInfo = Null) =>
    /\ validateRequests = 1
    /\ (last.op = "log" /\ ~Truthy(last.call.source)
          /\ ~Truthy(last.call.metadata.source)) =>
         /\ Built.source = (IF Truthy(options.defaultSource)
                            THEN options.defaultSource ELSE "unknown-source")
         /\ ~Supplied(Built.metadata.sourceId)

C18_Witness ==
  /\ sourceInfoPromise = "resolved"
  /\ sourceInfo = Null
  /\ last.op = "log"
  /\ last.suspended
  /\ last.call.source = ""
  /\ options.defaultSource = defaultSource
  /\ Built.source = defaultSource
  /\ validateRequests = 1

\* The ids of the entries of a sequence, in order.
IdSeq(s) == [i \in 1..Len(s) |-> s[i].id]
\* The ids n+1 .. m in order: the entries log() pushed after the n-th.
Since(n, m) == [i \in 1..(m - n) |-> n + i]

\* C19 (as stated): after a failed send the buffer is the failed batch
\* followed by the entries log() appended since the batch was drained, cut to
\* its first BufferCap entries.
C19_BatchThenAppended ==
  SendFailed =>
    IdSeq(buffer) = Take(IdSeq(last.ended.batch) \o Since(last.ended.drained, logCalls),
                         BufferCap)

\* C19 (amended): a failed send leaves the buffer equal to the failed batch
\* followed by what the buffer held when the send failed, cut to its first
\* BufferCap entries: the batch is at the head in its order and only the tail
\* of that concatenation is cut off.
C19_BatchThenBuffer ==
  [][last'.op = "sendFail" =>
       /\ buffer' = Take(last'.ended.batch \o buffer, BufferCap)
       /\ dropped' = dropped \cup
            {(last'.ended.batch \o buffer)[i].id :
               i \in (BufferCap + 1)..Len(last'.ended.batch \o buffer)}]_vars

C19_Witness ==
  /\ SendFailed
  /\ last.ended.appended
  /\ Len(last.ended.batch) = BatchSize
  /\ Len(buffer) = BufferCap
  /\ dropped # {}
  /\ Take(buffer, BatchSize) = last.ended.batch

\* C20: no POST /logs is issued with an empty batch.
C20_NoEmptyPost ==
  \A t \in Running : tasks[t].pc = "sending" => tasks[t].batch # <<>>


\* C21: a flush suspended on the source resolution eventually goes on to
\* drain the buffer and send, whether or not GET /validate is ever answered.
C21_FlushNeverBlocks == (Waiting # {}) ~> (last.op = "flushResume")


\* C22: once a POST has completed, with a response or with a thrown
\* transport error, its timeout has been cleared, so that the abort cannot
\* be fired for it any more.
C22_CompletedDisarms ==
  (last.op = "sendOk" \/ (last.op = "sendFail" /\ last.outcome # "abort"))
    => last.cleared


\* C23: a timer tick calls flush() while the POST of an earlier flush is still
\* in flight, and whenever two POSTs are in flight at once their batches
\* share no entry.
C23_ConcurrentBatchesDisjoint ==
  \A t \in Running, u \in Running :
    (t # u /\ tasks[t].pc = "sending" /\ tasks[u].pc = "sending")
      => IdsOf(tasks[t].batch) \cap IdsOf(tasks[u].batch) = {}

\* A tick has just issued a POST while the POST of an earlier flush is in
\* flight.
C23_Witness ==
  /\ last.op = "tick"
  /\ Len(tasks) = 2
  /\ tasks[1].pc = "sending" /\ tasks[1].batch # <<>>
  /\ tasks[2].pc = "sending" /\ tasks[2].batch # <<>>
  /\ tasks[2].owner = "timer"


\* Every close() call made so far has returned: the interval is cleared and
\* no flush that close() called is under way.
ClosedReturned == ~timer /\ \A t \in Running : tasks[t].owner # "close"

\* The flushes that issue their POST in the step: the task is sending after
\* the step and was not before it.
Issued ==
  {t \in 1..Len(tasks') :
     /\ Len(tasks') >= Len(tasks)
     /\ tasks'[t].pc = "sending"
     /\ (t > Len(tasks) \/ tasks[t].pc # "sending")}

\* C24: once close() has returned, a log() call still appends its entry to
\* the buffer, no flush called by the timer runs any more, and a POST is
\* issued only by a flush that log() called with the buffer at batchSize or
\* by a flush that a new close() called.
C24_AfterClose ==
  [][ClosedReturned =>
       /\ last'.op # "tick"
       /\ last'.op = "log" =>
            /\ logCalls' = logCalls + 1
            /\ logCalls' \in IdsOf(buffer') \cup
                 UNION {IdsOf(tasks'[t].batch) : t \in Issued}
       /\ \A t \in Issued :
            \/ tasks'[t].owner = "close"
            \/ /\ tasks'[t].owner = "log"
               /\ Len(tasks'[t].pre) >= BatchSize]_vars

\* close() has returned, and a log() call made after it brought the buffer
\* to batchSize and sent the entries logged since.
C24_Witness ==
  /\ ClosedReturned
  /\ last.op = "log"
  /\ last.flushes = 1
  /\ tasks # <<>>
  /\ tasks[Len(tasks)].pc = "sending"
  /\ tasks[Len(tasks)].owner = "log"
  /\ Len(tasks[Len(tasks)].batch) >= BatchSize


\* How many times the entry of the id-th log() call occurs in a sequence of
\* entries.
Occurrences(id, s) == Cardinality({i \in 1..Len(s) : s[i].id = id})

\* In how many places the entry of the id-th log() call is: the buffer, the
\* batches of the POSTs in flight, the entries delivered with a 2xx and the
\* entries truncated by a restore.
Places(id, buf, tk, del, drp) ==
  Occurrences(id, buf)
  + Cardinality({t \in 1..Len(tk) : id \in IdsOf(tk[t].batch)})
  + Cardinality({t \in 1..Len(tk) : Occurrences(id, tk[t].batch) > 1})
  + (IF id \in del THEN 1 ELSE 0)
  + (IF id \in drp THEN 1 ELSE 0)

\* C25: every entry accepted by log() is in exactly one place: once in the
\* buffer, in one in-flight batch, delivered with a 2xx, or dropped by the
\* truncation of a restore; and entries are dropped only by a restore of
\* more entries than the buffer cap.
C25_Conservation ==
  [][/\ \A id \in 1..logCalls' :
          Places(id, buffer', tasks', delivered', dropped') = 1
     /\ dropped' # dropped =>
          /\ last'.op = "sendFail"
          /\ Len(last'.ended.batch) + Len(buffer) > BufferCap]_vars

\* A failed POST has been restored in front of a buffer that log() had
\* filled meanwhile, and the truncation dropped an entry.
C25_Witness ==
  /\ last.op = "sendFail"
  /\ dropped # {}
  /\ Len(buffer) = BufferCap
  /\ \A id \in 1..logCalls : Places(id, buffer, tasks, delivered, dropped) = 1


\* C26 as stated: an entry carries the id of the resolved SourceInfo as its
\* sourceId exactly when the resolution had succeeded when log() built it,
\* and otherwise no sourceId but the one its caller passed.
C26_SourceIdIffResolved ==
  last.op = "log" =>
    IF sourceInfo # Null
    THEN Built.metadata.sourceId = sourceInfo.id
    ELSE Built.metadata.sourceId = last.call.metadata.sourceId

\* C26, amended: the entry carries the id of the resolved SourceInfo exactly
\* when the resolution had succeeded with a non-empty id; otherwise its
\* sourceId is the one of the caller's metadata, absent if there was none.
C26_SourceIdIffResolvedId ==
  last.op = "log" =>
    IF sourceInfo # Null /\ Truthy(sourceInfo.id)
    THEN Built.metadata.sourceId = sourceInfo.id
    ELSE Built.metadata.sourceId = last.call.metadata.sourceId

\* After the resolution succeeded, log() was called with a sourceId in its
\* metadata and built an entry that carries the resolved id instead.
C26_Witness ==
  /\ last.op = "log"
  /\ sourceInfo = SourceInfo
  /\ Truthy(last.call.metadata.sourceId)
  /\ Built.metadata.sourceId = SourceInfo.id


\* C27: an entry never changes once log() has built it: in the buffer, in
\* the batch of a POST, and back in the buffer after a failed POST, it is
\* the entry as it was built, whatever the source resolution yields later.
C27_EntriesImmutable ==
  [][\A e \in Held, f \in Held' : e.id = f.id => e = f]_vars

\* The first entry was built with the default source before the resolution
\* ended, its POST failed, and after the resolution succeeded a log() call
\* sends it again, with the default source.
C27_Witness ==
  /\ last.op = "log"
  /\ last.flushes = 1
  /\ sourceInfo = SourceInfo
  /\ sendFailures > 0
  /\ Len(tasks) = 1
  /\ tasks[1].pc = "sending"
  /\ tasks[1].batch # <<>>
  /\ tasks[1].batch[1].id = 1
  /\ tasks[1].batch[1].source = defaultSource
  /\ tasks[1].batch[1].metadata.sourceId = Undefined

====
